---- MODULE Spec2Model ----
(***************************************************************************)
(* GameQuest retrieval-and-ranking pipeline.                               *)
(*                                                                         *)
(* The state is the shared ModelManager (which models and collections are  *)
(* loaded) and the record of the request in progress: what the vector      *)
(* index and the database answered, what the cross-encoder was asked and   *)
(* answered, and the payload the handler returns.                          *)
(*                                                                         *)
(* Python floats are modelled by exact rationals <<numerator, denominator>>*)
(* in lowest terms; raw index distances are naturals.                      *)
(***************************************************************************)
EXTENDS Integers, Sequences, FiniteSets, TLC

VARIABLES mm, out

vars == <<mm, out>>

-----------------------------------------------------------------------------
(* Bounds of the model *)

\* most candidates the vector index returns for one query
MaxCands == 2
\* largest raw distance the vector index reports
MaxDist == 2
\* largest num_results a caller asks for
MaxResults == 2
\* longest distance list given to the normalisation on its own
MaxLen == 3
\* largest raw distance in those lists
MaxNormDist == 4
\* longest text, in characters, given to the cleanup pass on its own
MaxTextLen == 9

-----------------------------------------------------------------------------
(* Values *)

\* Python None and SQL NULL (psycopg2 maps one to the other)
None == -1

\* stored moby_score values: unscored, below and above the threshold used
MobyScores == {None, 5, 8}
\* values of the score filter a caller passes
ScoreFilters == {None, 7}
\* game descriptions: texts are only ever compared for equality, so a text is
\* named by a number; two games may share one
Descriptions == 1..MaxCands

\* stored release dates, by their year: undated, before and in the year used
\* as filter
RowYears == {None, 1999, 2000}
\* values of the year filter a caller passes: absent, the form's empty value 0
\* and a year
YearFilters == {None, 0, 2000}

\* one row of games_with_critics, less its id and the columns that no query
\* condition reads
Row == [moby_score : MobyScores, description : Descriptions \cup {None},
        release_year : RowYears]

\* title and reviews of a stored game: opaque values that are only carried
\* along, so each is named by the id of its game
TitleOf(id) == id
CriticsOf(id) == id

-----------------------------------------------------------------------------
(* Exact rational arithmetic standing for Python float arithmetic *)

RECURSIVE GCD(_, _)
GCD(a, b) == IF b = 0 THEN a ELSE GCD(b, a % b)

Abs(x) == IF x < 0 THEN 0 - x ELSE x

Rat(n, d) == LET g == GCD(Abs(n), d) IN <<n \div g, d \div g>>

RAdd(x, y) == Rat(x[1] * y[2] + y[1] * x[2], x[2] * y[2])
RSub(x, y) == Rat(x[1] * y[2] - y[1] * x[2], x[2] * y[2])
RMul(x, y) == Rat(x[1] * y[1], x[2] * y[2])
RLt(x, y) == x[1] * y[2] < y[1] * x[2]
RLeq(x, y) == x[1] * y[2] <= y[1] * x[2]

Zero == <<0, 1>>
One == <<1, 1>>

-----------------------------------------------------------------------------
(* Sequence helpers *)

RECURSIVE MaxOf(_)
MaxOf(s) == IF Len(s) = 1 THEN s[1]
            ELSE LET m == MaxOf(Tail(s)) IN IF s[1] >= m THEN s[1] ELSE m

\* list.index(x): first position holding x, 0 standing for ValueError
IndexOf(s, x) == IF \E i \in 1..Len(s) : s[i] = x
                 THEN CHOOSE i \in 1..Len(s) : s[i] = x /\ \A j \in 1..(i-1) : s[j] # x
                 ELSE 0

\* s[:n]
Take(s, n) == SubSeq(s, 1, IF n < Len(s) THEN n ELSE Len(s))

\* non-decreasing sequences of length n over 0..hi
SortedSeqs(n, hi) == {s \in [1..n -> 0..hi] : \A i \in 1..(n-1) : s[i] <= s[i+1]}

-----------------------------------------------------------------------------
(* ModelManager: L2 distances to similarity scores *)

\* the outcome of a call: the exception it raised ("none" when it returned)
\* and the pair (game_ids, scores) it returned
Returned(ids, scores) == [raised |-> "none", ids |-> ids, scores |-> scores]
Raised(e) == [raised |-> e, ids |-> <<>>, scores |-> <<>>]

\* distances_to_scores without the max-scaling (the critics policy)
distances_to_scores_unscaled(distances) ==
    Returned(<<>>, [i \in 1..Len(distances) |-> RSub(One, Rat(distances[i], 1))])

\* distances_to_scores taking a zero maximum for 1.0
distances_to_scores_guarded(distances) ==
    LET max_distance == IF Len(distances) > 0 /\ MaxOf(distances) > 0
                        THEN MaxOf(distances) ELSE 1
    IN  Returned(<<>>, [i \in 1..Len(distances) |->
                          RSub(One, Rat(distances[i], max_distance))])

\* distances_to_scores scaling by the last distance instead of the largest
distances_to_scores_last(distances) ==
    LET max_distance == IF Len(distances) > 0 THEN distances[Len(distances)] ELSE 1
    IN  IF Len(distances) > 0 /\ max_distance = 0
        THEN Raised("ZeroDivisionError")
        ELSE Returned(<<>>, [i \in 1..Len(distances) |->
                                RSub(One, Rat(distances[i], max_distance))])

\* max_distance = max(d) if d else 1.0; scores = [1 - d / max_distance ...]
\* Python float division by 0.0 raises ZeroDivisionError.
distances_to_scores(distances) ==
    LET max_distance == IF Len(distances) > 0 THEN MaxOf(distances) ELSE 1
    IN  IF Len(distances) > 0 /\ max_distance = 0
        THEN Raised("ZeroDivisionError")
        ELSE Returned(<<>>, [i \in 1..Len(distances) |->
                                RSub(One, Rat(distances[i], max_distance))])

\* scores = [1 - distance ...]: the critics collection is not max-scaled
critics_distances_to_scores(distances) ==
    [i \in 1..Len(distances) |-> RSub(One, Rat(distances[i], 1))]

\* encode_query raises when the description encoder is not loaded, and when
\* the encoder itself raises (resp.encoded is whether it returns an embedding)
encode_query(m, resp) ==
    IF ~m.desc_encoder THEN "RuntimeError"
    ELSE IF ~resp.encoded THEN "EncoderError"
    ELSE "none"

\* search_descriptions(query, n): resp is what the encoder and the collection
\* answer
search_descriptions(m, resp) ==
    IF ~m.desc_collection THEN Raised("RuntimeError")
    ELSE IF encode_query(m, resp) # "none" THEN Raised(encode_query(m, resp))
    ELSE LET n == distances_to_scores(resp.distances)
         IN  IF n.raised # "none" THEN n ELSE Returned(resp.ids, n.scores)

search_critics(m, resp) ==
    IF ~m.critics_collection THEN Raised("RuntimeError")
    ELSE IF encode_query(m, resp) # "none" THEN Raised(encode_query(m, resp))
    ELSE Returned(resp.ids, critics_distances_to_scores(resp.distances))

search_covers(m, resp) ==
    IF ~m.covers_collection THEN Raised("RuntimeError")
    ELSE IF encode_query(m, resp) # "none" THEN Raised(encode_query(m, resp))
    ELSE LET n == distances_to_scores(resp.distances)
         IN  IF n.raised # "none" THEN n ELSE Returned(resp.ids, n.scores)

search_screenshots(m, resp) ==
    IF ~m.screenshots_collection THEN Raised("RuntimeError")
    ELSE IF encode_query(m, resp) # "none" THEN Raised(encode_query(m, resp))
    ELSE LET n == distances_to_scores(resp.distances)
         IN  IF n.raised # "none" THEN n ELSE Returned(resp.ids, n.scores)

-----------------------------------------------------------------------------
(* utils/database: the score filter, in SQL's three-valued logic *)

SqlGe(x, y) == IF x = None \/ y = None THEN "U" ELSE IF x >= y THEN "T" ELSE "F"
SqlIsNull(x) == IF x = None THEN "T" ELSE "F"
SqlNot(a) == IF a = "U" THEN "U" ELSE IF a = "T" THEN "F" ELSE "T"
SqlOr(a, b) == IF a = "T" \/ b = "T" THEN "T"
               ELSE IF a = "U" \/ b = "U" THEN "U" ELSE "F"

\* score_condition losing the unscored records under a minimum score
score_condition_scored(moby_score, score, scored_only) ==
    IF score # None
    THEN SqlGe(moby_score, score)
    ELSE IF scored_only THEN SqlNot(SqlIsNull(moby_score)) ELSE "T"

\* the condition get_games_from_db appends for score / scored_only
score_condition(moby_score, score, scored_only) ==
    IF score # None
    THEN IF scored_only
         THEN SqlGe(moby_score, score)
         ELSE SqlOr(SqlGe(moby_score, score), SqlIsNull(moby_score))
    ELSE IF scored_only THEN SqlNot(SqlIsNull(moby_score)) ELSE "T"

\* the same condition as search_games_by_text appends it
text_score_condition(moby_score, score, scored_only) ==
    IF score # None
    THEN IF scored_only
         THEN SqlGe(moby_score, score)
         ELSE SqlOr(SqlGe(moby_score, score), SqlIsNull(moby_score))
    ELSE IF scored_only THEN SqlNot(SqlIsNull(moby_score)) ELSE "T"

\* the year condition kept for a zero year
year_condition_nonnull(release_year, year) ==
    IF year # None THEN SqlGe(release_year, year) ELSE "T"

\* the year condition keeping the undated rows
year_condition_undated(release_year, year) ==
    IF year # None /\ year # 0
    THEN SqlOr(SqlGe(release_year, year), SqlIsNull(release_year))
    ELSE "T"

\* if year: "EXTRACT(YEAR FROM release_date) >= %s"; None and 0 are falsy
year_condition(release_year, year) ==
    IF year # None /\ year # 0 THEN SqlGe(release_year, year) ELSE "T"

\* the same condition as search_games_by_text appends it
text_year_condition(release_year, year) ==
    IF year # None /\ year # 0 THEN SqlGe(release_year, year) ELSE "T"

\* ORDER BY moby_score DESC NULLS LAST: a precedes b, or they tie
MobyBefore(a, b) == IF b = None THEN TRUE ELSE IF a = None THEN FALSE ELSE a >= b

\* every order in which the database may return the rows of ids kept by keep:
\* ties are left to the database
OrderedRows(table, keep) ==
    LET S == {g \in DOMAIN table : keep[g]}
        n == Cardinality(S)
    IN  {[i \in 1..n |-> [id |-> p[i],
                          title |-> TitleOf(p[i]),
                          description |-> table[p[i]].description,
                          release_date |-> table[p[i]].release_year,
                          moby_score |-> table[p[i]].moby_score,
                          critics |-> CriticsOf(p[i])]] :
            p \in {q \in [1..n -> S] :
                    /\ \A i, j \in 1..n : i # j => q[i] # q[j]
                    /\ \A i \in 1..(n-1) :
                         MobyBefore(table[q[i]].moby_score, table[q[i+1]].moby_score)}}

\* get_games_from_db whose connection the request before has left closed
\* get_games_from_db without the year condition
get_games_from_db_any_date(table, game_ids, score, year, scored_only, db_ok) ==
    IF ~db_ok THEN {<<>>}
    ELSE OrderedRows(table,
            [g \in DOMAIN table |->
                /\ \E i \in 1..Len(game_ids) : game_ids[i] = g
                /\ score_condition(table[g].moby_score, score, scored_only) = "T"])

\* get_games_from_db without the score and year conditions
get_games_from_db_unfiltered(table, game_ids, score, year, scored_only, db_ok) ==
    IF ~db_ok THEN {<<>>}
    ELSE OrderedRows(table,
            [g \in DOMAIN table |-> \E i \in 1..Len(game_ids) : game_ids[i] = g])

get_games_from_db_once(table, game_ids, score, year, scored_only, db_ok) ==
    IF ~db_ok \/ out.op # "idle" THEN {<<>>}
    ELSE OrderedRows(table,
            [g \in DOMAIN table |->
                /\ \E i \in 1..Len(game_ids) : game_ids[i] = g
                /\ score_condition(table[g].moby_score, score, scored_only) = "T"
                /\ year_condition(table[g].release_year, year) = "T"])

\* get_games_from_db(game_ids, score, year, scored_only): WHERE id =
\* ANY(game_ids) AND the score condition AND the year condition; table holds
\* the stored row of each candidate id.  A connection or query error is caught
\* and [] returned.
get_games_from_db(table, game_ids, score, year, scored_only, db_ok) ==
    IF ~db_ok THEN {<<>>}
    ELSE OrderedRows(table,
            [g \in DOMAIN table |->
                /\ \E i \in 1..Len(game_ids) : game_ids[i] = g
                /\ score_condition(table[g].moby_score, score, scored_only) = "T"
                /\ year_condition(table[g].release_year, year) = "T"])

-----------------------------------------------------------------------------
(* ModelManager.rerank_results *)

\* what the cross-encoder does when invoked: it raises, it scores each passage
\* (the same passage gets the same score), or its logits are not 2-dimensional
CrossEncoderScores == {Zero, One}
CrossEncoder(passages) ==
    [kind : {"scores"},
     score : [{passages[i] : i \in 1..Len(passages)} -> CrossEncoderScores]]
    \cup [kind : {"raises", "logits_not_2d"}, score : {<<>>}]

OrigWeight == <<7, 10>>
RerankWeight == <<3, 10>>

\* combined_score with the two weights exchanged
combined_score_swapped(orig_score, rerank_score) ==
    RAdd(RMul(orig_score, RerankWeight), RMul(rerank_score, OrigWeight))

\* orig_score * 0.7 + rerank_score * 0.3
combined_score(orig_score, rerank_score) ==
    RAdd(RMul(orig_score, OrigWeight), RMul(rerank_score, RerankWeight))

\* list.sort(key=lambda x: x[1], reverse=True): stable, descending
RECURSIVE sort_reverse(_)
sort_reverse(s) ==
    IF s = <<>> THEN <<>>
    ELSE LET front == sort_reverse(SubSeq(s, 1, Len(s) - 1))
             x == s[Len(s)]
             k == Cardinality({i \in 1..Len(front) : RLeq(x[2], front[i][2])})
         IN  SubSeq(front, 1, k) \o <<x>> \o SubSeq(front, k + 1, Len(front))

RerankReturned(passages, scores) ==
    [raised |-> "none", passages |-> passages, scores |-> scores]

\* rerank_results letting the cross-encoder's exception out
rerank_results_unguarded(m, passages, scores, ce) ==
    IF ~m.reranker THEN [raised |-> "RuntimeError", passages |-> <<>>, scores |-> <<>>]
    ELSE IF ~m.reranker_tokenizer
    THEN [raised |-> "AttributeError", passages |-> <<>>, scores |-> <<>>]
    ELSE IF passages = <<>> THEN RerankReturned(<<>>, <<>>)
    ELSE IF ce.kind = "raises"
    THEN [raised |-> "Exception", passages |-> <<>>, scores |-> <<>>]
    ELSE LET rerank_scores == IF ce.kind = "scores"
                              THEN [i \in 1..Len(passages) |-> ce.score[passages[i]]]
                              ELSE scores
             combined_scores == sort_reverse(
                 [i \in 1..Len(scores) |-> <<i, combined_score(scores[i], rerank_scores[i])>>])
         IN  RerankReturned([k \in 1..Len(combined_scores) |-> passages[combined_scores[k][1]]],
                            [k \in 1..Len(combined_scores) |-> combined_scores[k][2]])

rerank_results(m, passages, scores, ce) ==
    IF ~m.reranker THEN [raised |-> "RuntimeError", passages |-> <<>>, scores |-> <<>>]
    ELSE IF ~m.reranker_tokenizer
    THEN [raised |-> "AttributeError", passages |-> <<>>, scores |-> <<>>]
    ELSE IF passages = <<>> THEN RerankReturned(<<>>, <<>>)
    ELSE IF ce.kind = "raises" THEN RerankReturned(passages, scores)
    ELSE LET rerank_scores == IF ce.kind = "scores"
                              THEN [i \in 1..Len(passages) |-> ce.score[passages[i]]]
                              ELSE scores
             combined_scores == sort_reverse(
                 [i \in 1..Len(scores) |-> <<i, combined_score(scores[i], rerank_scores[i])>>])
         IN  RerankReturned([k \in 1..Len(combined_scores) |-> passages[combined_scores[k][1]]],
                            [k \in 1..Len(combined_scores) |-> combined_scores[k][2]])

-----------------------------------------------------------------------------
(* SearchService *)

NoRerank == [called |-> FALSE, passages |-> <<>>, scores |-> <<>>,
             raised |-> "none", out_passages |-> <<>>, out_scores |-> <<>>]

\* formatted_game of semantic_search: the fields it copies from the row (critics
\* is not among them) and float(game.get('relevance_score', 0.0)); relevance is
\* the score last written to the game's dict, <<>> when none was
format_game(game, relevance) ==
    [id |-> game.id, title |-> game.title, description |-> game.description,
     release_date |-> game.release_date, moby_score |-> game.moby_score,
     relevance_score |-> IF relevance = <<>> THEN Zero ELSE relevance]

\* formatted_game of get_games_for_display: the same with the row's critics
format_display_game(game, relevance) ==
    [id |-> game.id, title |-> game.title, description |-> game.description,
     release_date |-> game.release_date, moby_score |-> game.moby_score,
     critics |-> game.critics,
     relevance_score |-> IF relevance = <<>> THEN Zero ELSE relevance]

\* formatted_game of the image searches: the row's fields less critics, and
\* the score looked up for the game
format_image_game(game, relevance_score) ==
    [id |-> game.id, title |-> game.title, description |-> game.description,
     release_date |-> game.release_date, moby_score |-> game.moby_score,
     relevance_score |-> relevance_score]

\* semantic_search and get_games_for_display from "Extract descriptions and
\* scores" to the formatted list: the games in final order, each with the
\* relevance_score its dict ends with
rank_games(op, m, desc_ids, desc_scores, games_data, ce, num_results) ==
    LET n == Len(games_data)
        format(game, r) == IF op = "get_games_for_display"
                           THEN format_display_game(game, r) ELSE format_game(game, r)
        game_descriptions == [j \in 1..n |-> games_data[j].description]
        game_scores == [j \in 1..n |->
            LET orig_idx == IndexOf(desc_ids, games_data[j].id)
            IN  IF orig_idx = 0 THEN Zero ELSE desc_scores[orig_idx]]
        rr == rerank_results(m, game_descriptions, game_scores, ce)
        trace == [called |-> TRUE, passages |-> game_descriptions, scores |-> game_scores,
                  raised |-> rr.raised, out_passages |-> rr.passages, out_scores |-> rr.scores]
        \* the first game whose description equals the k-th reranked description
        hit == [k \in 1..Len(rr.passages) |-> IndexOf(game_descriptions, rr.passages[k])]
        \* game['relevance_score'] = score: the last write to a dict is the one read
        relevance == [j \in 1..n |->
            IF \E k \in 1..Len(hit) : hit[k] = j
            THEN rr.scores[CHOOSE k \in 1..Len(hit) :
                              hit[k] = j /\ \A l \in (k+1)..Len(hit) : hit[l] # j]
            ELSE <<>>]
    IN  IF n > 1
        THEN IF rr.raised # "none"
             THEN [raised |-> rr.raised, games |-> <<>>, rr |-> trace]
             ELSE [raised |-> "none",
                   games |-> Take([k \in 1..Len(hit) |->
                                     format(games_data[hit[k]], relevance[hit[k]])],
                                  num_results),
                   rr |-> trace]
        ELSE [raised |-> "none",
              games |-> Take([j \in 1..n |-> format(games_data[j], <<>>)], num_results),
              rr |-> NoRerank]

-----------------------------------------------------------------------------
(* The request in progress: what the caller asked (op, num_results, score,  *)
(* scored_only, search_type), what the collaborators hold for it (ids and   *)
(* distances the index answers, table the stored rows of those ids, matches *)
(* the rows a lexical query matches, db_ok, ce), what the handler computed  *)
(* (found, games_data, rr) and what it returns (games, total, error);       *)
(* caught is the exception the handler logged.  Of an agentic request:      *)
(* games_info the games its response text is built from, llm what the       *)
(* generator did when invoked, llm_calls the number of calls made to it,    *)
(* answer the text before the cleanup step,                                 *)
(* cleaned whether that step ran, response the text returned, outcome the   *)
(* branch that produced it, and filters the filters its payload reports.    *)
(* encoded whether the encoder returned an embedding for its query.         *)
(* Of a request that was run before: first, the payload of that run.        *)
(* Of a request waiting for the generator (outcome "waiting"): late,        *)
(* whether the generator's timeout has passed.                              *)

NoCrossEncoder == [kind |-> "unused", score |-> <<>>]
\* no text generator was invoked
NoLlm == [kind |-> "unused", text |-> <<>>]

Idle == [op |-> "idle", num_results |-> 0, score |-> None, year |-> None,
         scored_only |-> FALSE,
         search_type |-> "", ids |-> <<>>, distances |-> <<>>, table |-> <<>>,
         matches |-> {},
         db_ok |-> TRUE, ce |-> NoCrossEncoder,
         found |-> Returned(<<>>, <<>>), games_data |-> <<>>, rr |-> NoRerank,
         games |-> <<>>, total |-> 0, error |-> "none", caught |-> "none",
         games_info |-> <<>>, llm |-> NoLlm, llm_calls |-> 0,
         answer |-> <<>>, cleaned |-> FALSE,
         response |-> <<>>, outcome |-> "none",
         filters |-> [score |-> None, year |-> None, scored_only |-> FALSE],
         first |-> <<>>, encoded |-> TRUE, late |-> FALSE]

Min(a, b) == IF a < b THEN a ELSE b

\* the encoder raises: the collection is not asked
EncoderFailure == [ids |-> <<>>, distances |-> <<>>, encoded |-> FALSE]

\* what the encoder and a collection answer to query(n_results = n): the
\* encoder raises, or the collection returns at most n neighbours, nearest
\* first; the candidates are numbered in the order the index returns them
IndexAnswers(n) ==
    UNION {[ids : {[i \in 1..k |-> i]}, distances : SortedSeqs(k, MaxDist),
            encoded : {TRUE}] : k \in 0..Min(n, MaxCands)}
    \cup {EncoderFailure}

\* the stored rows of n games, with any release dates.  The descriptions are
\* numbered in order of first appearance.
DatedTables(n) ==
    {t \in [1..n -> Row] :
        \A i \in 1..n : /\ t[i].description # None
                        /\ \/ t[i].description = 1
                           \/ \E j \in 1..(i-1) :
                                 t[i].description <= t[j].description + 1}

\* the release dates of the catalogue the search operations run against: the
\* first game is dated in the filter year, the second is undated, the others
\* are older
CatalogueYear(id) == IF id = 1 THEN 2000 ELSE IF id = 2 THEN None ELSE 1999

\* the stored rows of n games of that catalogue; none is read when the
\* database fails
Tables(n, db_ok) ==
    IF db_ok
    THEN {t \in DatedTables(n) : \A i \in 1..n : t[i].release_year = CatalogueYear(i)}
    ELSE {<<>>}

Unloaded == [desc_encoder |-> FALSE, reranker |-> FALSE, reranker_tokenizer |-> FALSE,
             desc_collection |-> FALSE, critics_collection |-> FALSE,
             covers_collection |-> FALSE, screenshots_collection |-> FALSE,
             llm |-> "none"]

Init == /\ mm = Unloaded
        /\ out = Idle

-----------------------------------------------------------------------------
(* ModelManager.load_models: the attributes are assigned in order, and the *)
(* first loader that raises ends the call (return False) with the earlier  *)
(* attributes set.  Missing image collections are tolerated.               *)

LoadSteps == <<"desc_encoder", "reranker", "reranker_tokenizer",
               "desc_collection", "critics_collection", "llm">>

\* the text generator load_models builds: a transformers pipeline on Hugging
\* Face Spaces, an Ollama client elsewhere
Backends == {"transformers", "ollama"}

load_models(m, fails_at, images, backend) ==
    LET done(i) == fails_at = 0 \/ i < fails_at
        set(f, i) == IF done(i) THEN TRUE ELSE m[f]
    IN  [desc_encoder |-> set("desc_encoder", 1),
         reranker |-> set("reranker", 2),
         reranker_tokenizer |-> set("reranker_tokenizer", 3),
         desc_collection |-> set("desc_collection", 4),
         critics_collection |-> set("critics_collection", 5),
         covers_collection |-> IF done(6) THEN images ELSE m.covers_collection,
         screenshots_collection |-> IF done(6) THEN images
                                    ELSE m.screenshots_collection,
         llm |-> IF fails_at = 0 THEN backend ELSE m.llm]

LoadModels ==
    /\ out.op = "idle"
    /\ mm = Unloaded
    /\ \E fails_at \in 0..Len(LoadSteps), images \in BOOLEAN, backend \in Backends :
         mm' = load_models(mm, fails_at, images, backend)
    /\ UNCHANGED out

-----------------------------------------------------------------------------
(* SearchService.semantic_search *)

\* semantic_search reporting an empty filter result as an error
semantic_search_empty_error(m, req, resp, table, db_ok, games_data, ce) ==
    LET found == search_descriptions(m, resp)
        base == [Idle EXCEPT !.op = "semantic_search",
                             !.num_results = req.num_results, !.score = req.score,
                             !.year = req.year, !.scored_only = req.scored_only,
                             !.ids = resp.ids, !.distances = resp.distances,
                             !.table = table, !.db_ok = db_ok, !.found = found]
        ranked == rank_games("semantic_search", m, found.ids, found.scores, games_data,
                             ce, req.num_results)
    IN  IF found.raised # "none"
        THEN [base EXCEPT !.error = found.raised, !.caught = found.raised]
        ELSE IF games_data = <<>>
        THEN [base EXCEPT !.error = "LookupError", !.caught = "LookupError"]
        ELSE IF ranked.raised # "none"
        THEN [base EXCEPT !.games_data = games_data, !.rr = ranked.rr, !.ce = ce,
                          !.error = ranked.raised, !.caught = ranked.raised]
        ELSE [base EXCEPT !.games_data = games_data, !.rr = ranked.rr, !.ce = ce,
                          !.games = ranked.games, !.total = Len(ranked.games)]

\* the payload of semantic_search, given what the collaborators answer
semantic_search(m, req, resp, table, db_ok, games_data, ce) ==
    LET found == search_descriptions(m, resp)
        base == [Idle EXCEPT !.op = "semantic_search",
                             !.num_results = req.num_results, !.score = req.score,
                             !.year = req.year, !.scored_only = req.scored_only,
                             !.ids = resp.ids, !.distances = resp.distances,
                             !.table = table, !.db_ok = db_ok, !.found = found]
        ranked == rank_games("semantic_search", m, found.ids, found.scores, games_data,
                             ce, req.num_results)
    IN  IF found.raised # "none"
        THEN [base EXCEPT !.error = found.raised, !.caught = found.raised]
        ELSE IF games_data = <<>>
        THEN base
        ELSE IF ranked.raised # "none"
        THEN [base EXCEPT !.games_data = games_data, !.rr = ranked.rr, !.ce = ce,
                          !.error = ranked.raised, !.caught = ranked.raised]
        ELSE [base EXCEPT !.games_data = games_data, !.rr = ranked.rr, !.ce = ce,
                          !.games = ranked.games, !.total = Len(ranked.games)]

Requests == [num_results : 1..MaxResults, score : ScoreFilters, year : YearFilters,
             scored_only : BOOLEAN]

\* the cross-encoder is drawn only when rerank_results gets to invoke it
\* (its tokenizer raises on a pair whose passage is None)
CrossEncoderFor(m, games_data) ==
    IF Len(games_data) > 1 /\ m.reranker /\ m.reranker_tokenizer
    THEN IF \E j \in 1..Len(games_data) : games_data[j].description = None
         THEN {[kind |-> "raises", score |-> <<>>]}
         ELSE CrossEncoder([j \in 1..Len(games_data) |-> games_data[j].description])
    ELSE {NoCrossEncoder}

SemanticSearch ==
    /\ out.op = "idle"
    /\ \E req \in Requests : \E resp \in IndexAnswers(2 * req.num_results) :
       \E db_ok \in BOOLEAN : \E table \in Tables(Len(resp.ids), db_ok) :
         LET found == search_descriptions(mm, resp)
         IN  \E games_data \in (IF found.raised # "none" THEN {<<>>}
                                ELSE get_games_from_db(table, found.ids, req.score,
                                                       req.year, req.scored_only, db_ok)) :
             \E ce \in CrossEncoderFor(mm, games_data) :
               out' = semantic_search(mm, req, resp, table, db_ok, games_data, ce)
    /\ UNCHANGED mm

-----------------------------------------------------------------------------
(* SearchService.get_games_for_display: the same pipeline, returning the   *)
(* list alone; any exception is logged and [] returned                     *)

get_games_for_display(m, req, resp, table, db_ok, games_data, ce) ==
    LET found == search_descriptions(m, resp)
        base == [Idle EXCEPT !.op = "get_games_for_display",
                             !.num_results = req.num_results, !.score = req.score,
                             !.year = req.year, !.scored_only = req.scored_only,
                             !.ids = resp.ids, !.distances = resp.distances,
                             !.table = table, !.db_ok = db_ok, !.found = found]
        ranked == rank_games("get_games_for_display", m, found.ids, found.scores,
                             games_data, ce, req.num_results)
    IN  IF found.raised # "none"
        THEN [base EXCEPT !.caught = found.raised]
        ELSE IF games_data = <<>>
        THEN base
        ELSE IF ranked.raised # "none"
        THEN [base EXCEPT !.games_data = games_data, !.rr = ranked.rr, !.ce = ce,
                          !.caught = ranked.raised]
        ELSE [base EXCEPT !.games_data = games_data, !.rr = ranked.rr, !.ce = ce,
                          !.games = ranked.games, !.total = Len(ranked.games)]

GetGamesForDisplay ==
    /\ out.op = "idle"
    /\ \E req \in Requests : \E resp \in IndexAnswers(2 * req.num_results) :
       \E db_ok \in BOOLEAN : \E table \in Tables(Len(resp.ids), db_ok) :
         LET found == search_descriptions(mm, resp)
         IN  \E games_data \in (IF found.raised # "none" THEN {<<>>}
                                ELSE get_games_from_db(table, found.ids, req.score,
                                                       req.year, req.scored_only, db_ok)) :
             \E ce \in CrossEncoderFor(mm, games_data) :
               out' = get_games_for_display(mm, req, resp, table, db_ok, games_data, ce)
    /\ UNCHANGED mm

-----------------------------------------------------------------------------
(* SearchService.image_search and search_by_image_embedding *)

SearchTypes == {"covers", "screenshots", "posters"}

\* dict(zip(game_ids, scores)).get(id, 0.0): the last pair of an id is kept
id_to_score(game_ids, scores, id) ==
    IF \E i \in 1..Len(game_ids) : game_ids[i] = id
    THEN scores[CHOOSE i \in 1..Len(game_ids) :
                   game_ids[i] = id /\ \A j \in (i+1)..Len(game_ids) : game_ids[j] # id]
    ELSE Zero

\* formatted_games, sorted by relevance_score (reverse=True), cut to num_results
score_and_sort(game_ids, scores, games_data, num_results) ==
    LET keyed == [j \in 1..Len(games_data) |->
                    <<j, id_to_score(game_ids, scores, games_data[j].id)>>]
        sorted == sort_reverse(keyed)
    IN  Take([k \in 1..Len(sorted) |->
                format_image_game(games_data[sorted[k][1]], sorted[k][2])], num_results)

\* the collection-backed search a search_type selects
image_candidates(m, search_type, resp) ==
    IF search_type = "covers" THEN search_covers(m, resp)
    ELSE IF search_type = "screenshots" THEN search_screenshots(m, resp)
    ELSE Raised("ValueError")

\* search_by_image_embedding queries the collection itself
embedding_candidates(m, search_type, resp) ==
    IF search_type \notin {"covers", "screenshots"} THEN Raised("ValueError")
    ELSE IF ~(IF search_type = "covers" THEN m.covers_collection
              ELSE m.screenshots_collection)
    THEN Raised("RuntimeError")
    ELSE LET n == distances_to_scores(resp.distances)
         IN  IF n.raised # "none" THEN n ELSE Returned(resp.ids, n.scores)

\* an image search that lets the exception of its retrieval out
image_result_raising(op, found, search_type, req, resp, table, db_ok, games_data) ==
    LET base == [Idle EXCEPT !.op = op, !.search_type = search_type,
                             !.num_results = req.num_results, !.score = req.score,
                             !.year = req.year, !.scored_only = req.scored_only,
                             !.ids = resp.ids, !.distances = resp.distances,
                             !.table = table, !.db_ok = db_ok, !.found = found]
    IN  IF found.raised # "none"
        THEN [base EXCEPT !.error = found.raised]
        ELSE IF games_data = <<>>
        THEN base
        ELSE LET games == score_and_sort(found.ids, found.scores, games_data,
                                         req.num_results)
             IN  [base EXCEPT !.games_data = games_data, !.games = games,
                              !.total = Len(games)]

image_result(op, found, search_type, req, resp, table, db_ok, games_data) ==
    LET base == [Idle EXCEPT !.op = op, !.search_type = search_type,
                             !.num_results = req.num_results, !.score = req.score,
                             !.year = req.year, !.scored_only = req.scored_only,
                             !.ids = resp.ids, !.distances = resp.distances,
                             !.table = table, !.db_ok = db_ok, !.found = found]
    IN  IF found.raised # "none"
        THEN [base EXCEPT !.caught = found.raised]
        ELSE IF games_data = <<>>
        THEN base
        ELSE LET games == score_and_sort(found.ids, found.scores, games_data,
                                         req.num_results)
             IN  [base EXCEPT !.games_data = games_data, !.games = games,
                              !.total = Len(games)]

image_search(m, search_type, req, resp, table, db_ok, games_data) ==
    image_result("image_search", image_candidates(m, search_type, resp),
                 search_type, req, resp, table, db_ok, games_data)

search_by_image_embedding(m, search_type, req, resp, table, db_ok, games_data) ==
    image_result("search_by_image_embedding", embedding_candidates(m, search_type, resp),
                 search_type, req, resp, table, db_ok, games_data)

NoAnswer == [ids |-> <<>>, distances |-> <<>>, encoded |-> TRUE]

\* image_search has no scored_only parameter: get_games_from_db defaults it
ImageSearch ==
    /\ out.op = "idle"
    /\ \E search_type \in SearchTypes :
       \E req \in {r \in Requests : ~r.scored_only} :
       \E resp \in (IF image_candidates(mm, search_type, NoAnswer).raised # "none"
                    THEN {NoAnswer} ELSE IndexAnswers(2 * req.num_results)) :
       \E db_ok \in BOOLEAN : \E table \in Tables(Len(resp.ids), db_ok) :
         LET found == image_candidates(mm, search_type, resp)
         IN  \E games_data \in (IF found.raised # "none" THEN {<<>>}
                                ELSE get_games_from_db(table, found.ids, req.score,
                                                       req.year, req.scored_only, db_ok)) :
               out' = image_search(mm, search_type, req, resp, table, db_ok, games_data)
    /\ UNCHANGED mm

SearchByImageEmbedding ==
    /\ out.op = "idle"
    /\ \E search_type \in SearchTypes :
       \E req \in Requests :
       \E resp \in (IF embedding_candidates(mm, search_type, NoAnswer).raised # "none"
                    THEN {NoAnswer} ELSE IndexAnswers(2 * req.num_results)) :
       \E db_ok \in BOOLEAN : \E table \in Tables(Len(resp.ids), db_ok) :
         LET found == embedding_candidates(mm, search_type, resp)
         IN  \E games_data \in (IF found.raised # "none" THEN {<<>>}
                                ELSE get_games_from_db(table, found.ids, req.score,
                                                       req.year, req.scored_only, db_ok)) :
               out' = search_by_image_embedding(mm, search_type, req, resp, table,
                                                db_ok, games_data)
    /\ UNCHANGED mm

\* search_critics returns ids and scores; no search operation attaches them
SearchCritics ==
    /\ out.op = "idle"
    /\ \E n \in 1..(2 * MaxResults) : \E resp \in IndexAnswers(n) :
         LET found == search_critics(mm, resp)
         IN  out' = [Idle EXCEPT !.op = "search_critics", !.ids = resp.ids,
                                 !.distances = resp.distances, !.found = found,
                                 !.caught = found.raised]
    /\ UNCHANGED mm

-----------------------------------------------------------------------------
(* utils/database.search_games_by_text: the rows whose title or description *)
(* matches the query, under the same filters, best stored score first,      *)
(* LIMIT limit                                                              *)

search_games_by_text(table, matches, score, year, scored_only, limit, db_ok) ==
    IF ~db_ok THEN {<<>>}
    ELSE {Take(rows, limit) :
            rows \in OrderedRows(table,
                [g \in DOMAIN table |->
                    /\ g \in matches
                    /\ text_score_condition(table[g].moby_score, score, scored_only) = "T"
                    /\ text_year_condition(table[g].release_year, year) = "T"])}

SearchGamesByText ==
    /\ out.op = "idle"
    /\ \E req \in Requests, db_ok \in BOOLEAN :
       \E k \in (IF db_ok THEN 0..MaxCands ELSE {0}) :
       \E table \in Tables(k, db_ok) : \E matches \in SUBSET (1..k) :
       \E games \in search_games_by_text(table, matches, req.score, req.year, req.scored_only,
                                         req.num_results, db_ok) :
         out' = [Idle EXCEPT !.op = "search_games_by_text",
                             !.num_results = req.num_results, !.score = req.score,
                             !.year = req.year, !.scored_only = req.scored_only,
                             !.matches = matches, !.table = table, !.db_ok = db_ok,
                             !.games_data = games, !.total = Len(games)]
    /\ UNCHANGED mm

-----------------------------------------------------------------------------
(* AgenticRAGService: the answer in words to a query, and the games it is   *)
(* about.  A text is the sequence of the parts text.split('. ') cuts it in; *)
(* parts are only ever compared for equality.                               *)

Part(kind, n, title, year) == [kind |-> kind, n |-> n, title |-> title, year |-> year]

\* "I couldn't find any games matching your search for '{query}'."
NoMatchesText == <<Part("no_matches", 0, 0, 0)>>
\* "I encountered an error while searching for '{query}': {e}"
ErrorText == <<Part("error", 0, 0, 0)>>

\* the year shown for a game without release date
Unknown == None

\* what the generator writes: one sentence, or a sentence said twice and
\* another one
GeneratedTexts == {<<Part("generated", 1, 0, 0)>>,
                   <<Part("generated", 1, 0, 0), Part("generated", 1, 0, 0),
                     Part("generated", 2, 0, 0)>>}

\* what the configured generator does when invoked: the Ollama client's
\* complete() returns a response or raises; the transformers pipeline returns
\* [{"generated_text": ...}], something of another shape, or raises
LlmAnswers(llm) ==
    IF llm = "ollama"
    THEN [kind : {"complete"}, text : GeneratedTexts] \cup {[kind |-> "raises", text |-> <<>>]}
    ELSE IF llm = "transformers"
    THEN [kind : {"generated_text", "other"}, text : GeneratedTexts]
         \cup {[kind |-> "raises", text |-> <<>>]}
    ELSE {NoLlm}

\* _clean_text keeping every part
clean_text_identity(text) == text

\* _clean_text: a part equal to the last part kept is dropped
RECURSIVE clean_text(_)
clean_text(text) ==
    IF text = <<>> THEN <<>>
    ELSE LET cleaned_parts == clean_text(SubSeq(text, 1, Len(text) - 1))
             part == text[Len(text)]
         IN  IF cleaned_parts # <<>> /\ part = cleaned_parts[Len(cleaned_parts)]
             THEN cleaned_parts
             ELSE Append(cleaned_parts, part)

\* _generate_fallback_response: "Based on your query, I found N highly
\* relevant games:" and one numbered line "i. **title** (year)" per game
generate_fallback_response(games_info) ==
    <<Part("found", Len(games_info), 0, 0)>>
    \o [i \in 1..Len(games_info) |->
          Part("item", i, games_info[i].title, games_info[i].year)]

\* text_search_tool from "Format games for the prompt" on, given the games
\* get_games_for_display returned and what the generator does if invoked.
\* The prompt takes description[:300] of every game, a TypeError when a
\* description is None.
answer_for_games(m, games_data, ans) ==
    LET games_info == [i \in 1..Len(games_data) |->
            [title |-> games_data[i].title,
             year |-> IF games_data[i].release_date # None
                      THEN games_data[i].release_date ELSE Unknown,
             description |-> games_data[i].description]]
        fallback == generate_fallback_response(games_info)
        r == [games_info |-> games_info, llm |-> NoLlm, llm_calls |-> 0,
              answer |-> <<>>,
              cleaned |-> FALSE, response |-> <<>>, outcome |-> "none",
              caught |-> "none"]
    IN  IF \E i \in 1..Len(games_info) : games_info[i].description = None
        THEN [r EXCEPT !.response = ErrorText, !.outcome = "error",
                       !.caught = "TypeError"]
        ELSE IF m.llm = "ollama"
        THEN IF ans.kind = "raises"
             THEN [r EXCEPT !.llm = ans, !.llm_calls = 1,
                            !.answer = fallback, !.response = fallback,
                            !.outcome = "fallback", !.caught = "Exception"]
             ELSE [r EXCEPT !.llm = ans, !.llm_calls = 1,
                            !.answer = ans.text, !.response = ans.text,
                            !.outcome = "generated"]
        ELSE IF m.llm = "transformers"
        THEN IF ans.kind = "raises"
             THEN [r EXCEPT !.llm = ans, !.llm_calls = 1,
                            !.answer = fallback, !.cleaned = TRUE,
                            !.response = clean_text(fallback),
                            !.outcome = "fallback", !.caught = "Exception"]
             ELSE [r EXCEPT !.llm = ans, !.llm_calls = 1,
                            !.answer = ans.text, !.cleaned = TRUE,
                            !.response = clean_text(ans.text),
                            !.outcome = "generated"]
        ELSE [r EXCEPT !.answer = fallback, !.response = fallback,
                       !.outcome = "fallback"]

\* text_search_tool answering for an empty list of games as for any other
text_search_tool_unchecked(m, games_data, ans) == answer_for_games(m, games_data, ans)

\* text_search_tool: without games the answer is fixed
text_search_tool(m, games_data, ans) ==
    IF games_data = <<>>
    THEN [games_info |-> <<>>, llm |-> NoLlm, llm_calls |-> 0,
          answer |-> <<>>, cleaned |-> FALSE,
          response |-> NoMatchesText, outcome |-> "empty", caught |-> "none"]
    ELSE answer_for_games(m, games_data, ans)

\* text_search_tool gets to invoke the generator: there are games, the prompt
\* could be built and a generator is configured
invokes_llm(m, games_data) ==
    /\ games_data # <<>>
    /\ \A i \in 1..Len(games_data) : games_data[i].description # None
    /\ m.llm # "none"

\* num_results of both searches of agentic_rag_search
AgenticResults == 5

\* the rows as stored, or with the description of some of them NULL (the
\* column is nullable); text_search_tool is the one operation that reads into
\* a description, the others compare it or pass it on
WithNullDescriptions(tables) ==
    UNION {{[i \in DOMAIN t |-> IF i \in S THEN [t[i] EXCEPT !.description = None]
                                 ELSE t[i]] : S \in SUBSET DOMAIN t} : t \in tables}

\* every list get_games_for_display may return for a request, the encoder
\* returning an embedding or raising
display_answers(m, req, encoded) ==
    UNION {UNION {UNION {
        LET found == search_descriptions(m, resp)
        IN  UNION {{get_games_for_display(m, req, resp, table, db_ok, games_data, ce).games :
                      ce \in CrossEncoderFor(m, games_data)} :
                   games_data \in (IF found.raised # "none" THEN {<<>>}
                                   ELSE get_games_from_db(table, found.ids, req.score,
                                                          req.year, req.scored_only, db_ok))} :
        table \in WithNullDescriptions(Tables(Len(resp.ids), db_ok))} :
        db_ok \in BOOLEAN} :
        resp \in {r \in IndexAnswers(2 * req.num_results) : r.encoded = encoded}}

\* "Convert year=0 to None (no filter)"
normalized_year(year) == IF year = 0 THEN None ELSE year

\* the search both steps of agentic_rag_search ask get_games_for_display for
agentic_search(req) ==
    [num_results |-> AgenticResults, score |-> req.score,
     year |-> normalized_year(req.year), scored_only |-> req.scored_only]

\* agentic_rag_search: games_data are the games the first search returned to
\* text_search_tool, games those of the second; filters are the filters the
\* payload reports
agentic_rag_search(m, req, encoded, games_data, ans, games) ==
    LET year == normalized_year(req.year)
        ai_response == text_search_tool(m, games_data, ans)
    IN  [Idle EXCEPT !.op = "agentic_rag_search", !.num_results = AgenticResults,
                     !.encoded = encoded,
                     !.score = req.score, !.year = req.year,
                     !.scored_only = req.scored_only,
                     !.filters = [score |-> req.score, year |-> year,
                                  scored_only |-> req.scored_only],
                     !.games_info = ai_response.games_info, !.llm = ai_response.llm,
                     !.llm_calls = ai_response.llm_calls,
                     !.answer = ai_response.answer, !.cleaned = ai_response.cleaned,
                     !.response = ai_response.response,
                     !.outcome = ai_response.outcome, !.caught = ai_response.caught,
                     !.games = games, !.total = Len(games)]

AgenticRequests == [score : ScoreFilters, year : YearFilters, scored_only : BOOLEAN]

\* The two searches are separate calls for the same query: the encoder does
\* the same in both, and the index and the database answer each on its own.  Between them the store is left as it is, or it changes so
\* that one of the two searches comes back empty (the index or the database
\* failing or recovering, the candidates being added or removed).
second_answers(answers, games_data) ==
    IF games_data = <<>> THEN answers ELSE {games_data, <<>>}

AgenticRagSearch ==
    /\ out.op = "idle"
    /\ \E req \in AgenticRequests, encoded \in BOOLEAN :
         LET answers == display_answers(mm, agentic_search(req), encoded)
         IN  \E games_data \in answers : \E games \in second_answers(answers, games_data) :
             \E ans \in (IF invokes_llm(mm, games_data) THEN LlmAnswers(mm.llm)
                         ELSE {NoLlm}) :
               out' = agentic_rag_search(mm, req, encoded, games_data, ans, games)
    /\ UNCHANGED mm

\* the response of a finished request is handed to the caller; nothing of the
\* request is kept
Return ==
    /\ out.op # "idle"
    /\ out.outcome # "waiting"
    /\ out' = Idle
    /\ UNCHANGED mm

Next == \/ LoadModels
        \/ SemanticSearch
        \/ GetGamesForDisplay
        \/ ImageSearch
        \/ SearchByImageEmbedding
        \/ SearchCritics
        \/ SearchGamesByText
        \/ AgenticRagSearch
        \/ Return

Spec == Init /\ [][Next]_vars

-----------------------------------------------------------------------------
(* The same request twice: semantic_search is called again with the query   *)
(* and filters of the request just answered, against the same index and     *)
(* database and with the same cross-encoder.  An unchanged store answers as *)
(* before: the same candidates, and the same rows in the same order.        *)

payload(o) == [games |-> o.games, total |-> o.total, error |-> o.error]

SemanticSearchAgain ==
    /\ out.op = "semantic_search"
    /\ out.first = <<>>
    /\ LET req == [num_results |-> out.num_results, score |-> out.score,
                   year |-> out.year, scored_only |-> out.scored_only]
           resp == [ids |-> out.ids, distances |-> out.distances,
                    encoded |-> out.found.raised # "EncoderError"]
           found == search_descriptions(mm, resp)
           rows == IF found.raised # "none" THEN {<<>>}
                   ELSE get_games_from_db(out.table, found.ids, req.score, req.year,
                                          req.scored_only, out.db_ok)
       IN  \E games_data \in rows :
             /\ out.games_data \in rows => games_data = out.games_data
             /\ \E ce \in CrossEncoderFor(mm, games_data) :
                  /\ out.ce \in CrossEncoderFor(mm, games_data) => ce = out.ce
                  /\ out' = [semantic_search(mm, req, resp, out.table, out.db_ok,
                                             games_data, ce)
                               EXCEPT !.first = <<payload(out)>>]
    /\ UNCHANGED mm

NextAgain == \/ LoadModels
             \/ SemanticSearch
             \/ SemanticSearchAgain
             \/ Return

SpecAgain == Init /\ [][NextAgain]_vars

-----------------------------------------------------------------------------
(* The generator call of an agentic request, step by step.  text_search_tool *)
(* blocks in llm.complete(prompt) or llm(prompt) until the generator answers *)
(* or raises.  The Ollama client is built with request_timeout=60.0 and      *)
(* raises when that time has passed; the transformers pipeline is built      *)
(* without any timeout and the call lasts as long as the generation does.    *)

\* text_search_tool has searched, built the prompt and invokes the generator
InvokeGenerator ==
    /\ out.op = "idle"
    /\ \E req \in AgenticRequests :
       \E games_data \in display_answers(mm, agentic_search(req), TRUE) :
         /\ invokes_llm(mm, games_data)
         /\ out' = [Idle EXCEPT !.op = "agentic_rag_search",
                                !.num_results = AgenticResults,
                                !.score = req.score, !.year = req.year,
                                !.scored_only = req.scored_only,
                                !.games_data = games_data, !.outcome = "waiting"]
    /\ UNCHANGED mm

\* the time of the generator's timeout passes without an answer
TimeoutPasses ==
    /\ out.outcome = "waiting"
    /\ ~out.late
    /\ out' = [out EXCEPT !.late = TRUE]
    /\ UNCHANGED mm

\* the rest of agentic_rag_search once the generator call is over
finish_generation(m, o, ans, games) ==
    agentic_rag_search(m, [score |-> o.score, year |-> o.year,
                           scored_only |-> o.scored_only],
                       TRUE, o.games_data, ans, games)

\* the generator answers or raises; the Ollama client only hears it in time
GeneratorAnswers ==
    /\ out.outcome = "waiting"
    /\ mm.llm = "ollama" => ~out.late
    /\ \E ans \in LlmAnswers(mm.llm), games \in {out.games_data, <<>>} :
         out' = finish_generation(mm, out, ans, games)
    /\ UNCHANGED mm

\* the Ollama client gives up at request_timeout: complete() raises
GeneratorTimesOut ==
    /\ out.outcome = "waiting"
    /\ mm.llm = "ollama"
    /\ out.late
    /\ \E games \in {out.games_data, <<>>} :
         out' = finish_generation(mm, out, [kind |-> "raises", text |-> <<>>], games)
    /\ UNCHANGED mm

NextGenerate == \/ LoadModels
                \/ InvokeGenerator
                \/ TimeoutPasses
                \/ GeneratorAnswers
                \/ GeneratorTimesOut
                \/ Return

\* time passes, the client's timeout fires and a finished request is handed
\* back; nothing makes the generator answer
SpecGenerate ==
    /\ Init
    /\ [][NextGenerate]_vars
    /\ WF_vars(TimeoutPasses)
    /\ WF_vars(GeneratorTimesOut)
    /\ WF_vars(Return)

-----------------------------------------------------------------------------
(* The normalisation on its own: any list of raw distances *)

DistanceLists == UNION {[1..n -> 0..MaxNormDist] : n \in 0..MaxLen}

Normalize ==
    /\ out.op = "idle"
    /\ \E distances \in DistanceLists :
         out' = [Idle EXCEPT !.op = "distances_to_scores", !.distances = distances,
                             !.found = distances_to_scores(distances)]
    /\ UNCHANGED mm

NextNormalize == Normalize \/ Return

SpecNormalize == Init /\ [][NextNormalize]_vars

-----------------------------------------------------------------------------
(* utils/database.get_games_from_db called on its own, against stored rows *)
(* of any release date: n games are stored and the first k are asked for    *)

GetGamesFromDb ==
    /\ out.op = "idle"
    /\ \E score \in ScoreFilters, year \in YearFilters, scored_only \in BOOLEAN,
          db_ok \in BOOLEAN :
       \E n \in 0..MaxCands : \E k \in 0..n : \E table \in DatedTables(n) :
       \E games \in get_games_from_db(table, [i \in 1..k |-> i], score, year,
                                      scored_only, db_ok) :
         out' = [Idle EXCEPT !.op = "get_games_from_db", !.score = score,
                             !.year = year, !.scored_only = scored_only,
                             !.ids = [i \in 1..k |-> i], !.table = table,
                             !.db_ok = db_ok, !.games_data = games,
                             !.total = Len(games)]
    /\ UNCHANGED mm

NextFilter == GetGamesFromDb \/ Return

SpecFilter == Init /\ [][NextFilter]_vars

-----------------------------------------------------------------------------
(* AgenticRAGService._clean_text on its own, on strings: a text is the      *)
(* sequence of its characters                                               *)

\* a letter, and the two characters of the separator ". "
Chars == {"a", ".", " "}
Strings == UNION {[1..n -> Chars] : n \in 0..MaxTextLen}

\* text.split(". "): the separator is searched from the left; a text without
\* it, the empty one too, is a single part
RECURSIVE split(_)
split(text) ==
    LET hits == {i \in 1..(Len(text) - 1) : text[i] = "." /\ text[i + 1] = " "}
    IN  IF hits = {} THEN <<text>>
        ELSE LET i == CHOOSE h \in hits : \A g \in hits : h <= g
             IN  <<SubSeq(text, 1, i - 1)>> \o split(SubSeq(text, i + 2, Len(text)))

\* ". ".join(parts)
RECURSIVE join(_)
join(parts) ==
    IF parts = <<>> THEN <<>>
    ELSE IF Len(parts) = 1 THEN parts[1]
    ELSE parts[1] \o <<".", " ">> \o join(Tail(parts))

\* _clean_text(text) on a string
clean_string(text) == join(clean_text(split(text)))

CleanText ==
    /\ out.op = "idle"
    /\ \E text \in Strings :
         out' = [Idle EXCEPT !.op = "clean_text", !.answer = text, !.cleaned = TRUE,
                             !.response = clean_string(text)]
    /\ UNCHANGED mm

NextCleanText == CleanText \/ Return

SpecCleanText == Init /\ [][NextCleanText]_vars

-----------------------------------------------------------------------------
(* Properties *)

TextOps == {"semantic_search", "get_games_for_display"}
ImageOps == {"image_search", "search_by_image_embedding"}
SearchOps == TextOps \cup ImageOps

\* the cross-encoder was invoked and scored the passages
Reranked == /\ out.op \in TextOps
            /\ out.rr.called
            /\ out.rr.raised = "none"
            /\ out.ce.kind = "scores"

\* f = (a * x + b * y) / 10, on rationals
IsBlend(f, a, x, b, y) ==
    f[1] * 10 * x[2] * y[2] = f[2] * (a * x[1] * y[2] + b * y[1] * x[2])

\* each reranked passage is one of the inputs, carrying the blend of its own
\* similarity (weight a) and its cross-encoder score (weight b)
FusedWith(a, b) ==
    LET n == Len(out.rr.passages)
    IN  \E p \in {q \in [1..n -> 1..n] : \A i, j \in 1..n : i # j => q[i] # q[j]} :
          \A k \in 1..n :
            /\ out.rr.out_passages[k] = out.rr.passages[p[k]]
            /\ IsBlend(out.rr.out_scores[k], a, out.rr.scores[p[k]],
                       b, out.ce.score[out.rr.passages[p[k]]])

\* C1 as stated: the fused score is 0.7 x cross-encoder score + 0.3 x original
\* retrieval similarity
C1_FusedCrossEncoderHeavy == Reranked => FusedWith(3, 7)

\* C1 (amended): for every candidate passed to a reranking that succeeds, the
\* fused score is 0.7 x original retrieval similarity + 0.3 x cross-encoder score
C1_FusedSimilarityHeavy == Reranked => FusedWith(7, 3)

C1_Witness == /\ Reranked
              /\ Len(out.rr.passages) >= 2
              /\ \E i \in 1..Len(out.rr.passages) :
                    out.rr.scores[i] # out.ce.score[out.rr.passages[i]]

\* C2: every result list a search operation returns is sorted by
\* relevance_score descending
C2_SortedByRelevance ==
    out.op \in SearchOps =>
        \A i, j \in 1..Len(out.games) :
            i < j => RLeq(out.games[j].relevance_score, out.games[i].relevance_score)

\* C3: when the cross-encoder raises inside rerank_results, the call returns the
\* passages in their input order with their original scores, and the search
\* reports no error
C3_DegradesToInput ==
    (out.op \in TextOps /\ out.rr.called /\ out.ce.kind = "raises") =>
        /\ out.rr.raised = "none"
        /\ out.rr.out_passages = out.rr.passages
        /\ out.rr.out_scores = out.rr.scores
        /\ out.error = "none"
        /\ out.caught = "none"

C3_Witness == /\ out.op = "semantic_search"
              /\ out.rr.called
              /\ out.ce.kind = "raises"
              /\ Len(out.rr.scores) >= 2
              /\ RLt(out.rr.scores[1], out.rr.scores[2])
              /\ out.rr.passages[1] # out.rr.passages[2]

\* the record is kept by the score filter, as the filter is documented
Keeps(moby_score, score, scored_only) ==
    IF score # None /\ scored_only THEN moby_score # None /\ moby_score >= score
    ELSE IF score # None THEN moby_score = None \/ moby_score >= score
    ELSE IF scored_only THEN moby_score # None
    ELSE TRUE

\* the record is kept by the year filter, as the filter is documented: an
\* absent or zero year filters nothing
KeepsYear(release_year, year) ==
    (year # None /\ year # 0) => (release_year # None /\ release_year >= year)

\* the candidates of the request that pass its filters
Survivors == {i \in 1..Len(out.table) :
                /\ Keeps(out.table[i].moby_score, out.score, out.scored_only)
                /\ KeepsYear(out.table[i].release_year, out.year)}

C6_ZeroMaxDistance ==
    (/\ out.op = "semantic_search"
     /\ mm.desc_collection /\ mm.desc_encoder
     /\ Len(out.distances) > 0
     /\ \A i \in 1..Len(out.distances) : out.distances[i] = 0) =>
        /\ out.found.raised = "none"
        /\ out.found.scores = [i \in 1..Len(out.distances) |-> One]
        /\ out.error = "none"

C8_MaxScaled ==
    (/\ out.op = "distances_to_scores"
     /\ Len(out.distances) > 0
     /\ \E i \in 1..Len(out.distances) : out.distances[i] > 0) =>
        LET d == out.distances
            s == out.found.scores
        IN  /\ out.found.raised = "none"
            /\ Len(s) = Len(d)
            /\ \A i \in 1..Len(d) : \A m \in 1..Len(d) :
                 (\A j \in 1..Len(d) : d[j] <= d[m]) =>
                    /\ s[i][2] > 0
                    /\ s[i][1] * d[m] = s[i][2] * (d[m] - d[i])
                    /\ s[m] = Zero
            /\ \A i, j \in 1..Len(d) : d[i] <= d[j] => RLeq(s[j], s[i])
            /\ d = <<2, 4>> => s = <<(<<1, 2>>), Zero>>

C8_Witness == /\ out.op = "distances_to_scores"
              /\ out.distances = <<2, 4>>
              /\ out.found.scores = <<(<<1, 2>>), Zero>>

\* C9: when retrieval returns no candidates, or none passes the filters,
\* semantic_search returns games = [], total = 0 and no error, and the
\* cross-encoder is not invoked
C9_EmptyIsNotAnError ==
    (/\ out.op = "semantic_search"
     /\ out.found.raised = "none"
     /\ out.db_ok
     /\ Survivors = {}) =>
        /\ out.games = <<>>
        /\ out.total = 0
        /\ out.error = "none"
        /\ ~out.rr.called

C9_Witness == /\ out.op = "semantic_search"
              /\ out.found.raised = "none"
              /\ out.db_ok
              /\ Len(out.ids) >= 2
              /\ Survivors = {}
              /\ out.games = <<>>

\* C10: both queries keep a record exactly when the documented score policy
\* keeps it (search_games_by_text among the rows matching the text, up to LIMIT)
C10_ScorePolicy ==
    /\ (out.op \in SearchOps /\ out.found.raised = "none" /\ out.db_ok) =>
          {out.games_data[j].id : j \in 1..Len(out.games_data)} = Survivors
    /\ (out.op = "search_games_by_text" /\ out.db_ok) =>
          LET returned == {out.games_data[j].id : j \in 1..Len(out.games_data)}
              wanted == Survivors \cap out.matches
          IN  /\ returned \subseteq wanted
              /\ Len(out.games_data) = Min(Cardinality(wanted), out.num_results)

C10_Witness == /\ out.op \in SearchOps \cup {"search_games_by_text"}
               /\ out.score # None
               /\ ~out.scored_only
               /\ \E j \in 1..Len(out.games_data) : out.games_data[j].moby_score = None
               /\ \E i \in 1..Len(out.table) :
                     out.table[i].moby_score # None /\ i \notin Survivors

\* C11: with a positive year filter get_games_from_db returns exactly the
\* candidates released in that year or later (and passing the score filter); a
\* game with no release date is never returned
C11_YearFilter ==
    (out.op = "get_games_from_db" /\ out.db_ok /\ out.year # None /\ out.year > 0) =>
        LET returned == {out.games_data[j].id : j \in 1..Len(out.games_data)}
        IN  /\ \A j \in 1..Len(out.games_data) :
                  /\ out.games_data[j].release_date # None
                  /\ out.games_data[j].release_date >= out.year
            /\ \A g \in 1..Len(out.ids) :
                  (/\ out.table[g].release_year # None
                   /\ out.table[g].release_year >= out.year
                   /\ Keeps(out.table[g].moby_score, out.score, out.scored_only))
                  => g \in returned
            /\ returned \subseteq 1..Len(out.ids)

C11_Witness == /\ out.op = "get_games_from_db"
               /\ out.db_ok
               /\ out.year = 2000
               /\ Len(out.ids) = 2
               /\ Len(out.games_data) = 1
               /\ \E g \in 1..2 : out.table[g].release_year = None
               /\ \A g \in 1..2 : Keeps(out.table[g].moby_score, out.score, out.scored_only)

\* C13: when zero or one candidate survives the filters the cross-encoder is
\* not invoked, and a single survivor is returned carrying its original
\* retrieval similarity as relevance_score
C13_SingleKeepsSimilarity ==
    (/\ out.op \in TextOps
     /\ out.found.raised = "none"
     /\ out.db_ok
     /\ Cardinality(Survivors) <= 1) =>
        /\ ~out.rr.called
        /\ Cardinality(Survivors) = 1 =>
              /\ Len(out.games) = 1
              /\ out.games[1].id \in Survivors
              /\ out.games[1].relevance_score =
                    out.found.scores[IndexOf(out.found.ids, out.games[1].id)]

\* C14: semantic_search returns min(number of candidates surviving the
\* filters, num_results) games, and total is the number of games returned
C14_CountIsMinOfSurvivorsAndLimit ==
    (/\ out.op = "semantic_search"
     /\ mm.desc_encoder /\ mm.desc_collection
     /\ out.db_ok) =>
        /\ Len(out.games) = Min(Cardinality(Survivors), out.num_results)
        /\ out.total = Len(out.games)

\* C15: every field of a returned game equals the stored value of that game,
\* critics included, and relevance_score is the only field added
C15_FieldsPassThrough ==
    out.op \in TextOps =>
        \A k \in 1..Len(out.games) :
            LET g == out.games[k]
            IN  /\ DOMAIN g = {"id", "title", "description", "release_date",
                               "moby_score", "critics", "relevance_score"}
                /\ g.id \in 1..Len(out.table)
                /\ g.title = TitleOf(g.id)
                /\ g.description = out.table[g.id].description
                /\ g.release_date = out.table[g.id].release_year
                /\ g.moby_score = out.table[g.id].moby_score
                /\ g.critics = CriticsOf(g.id)

-----------------------------------------------------------------------------
\* C12: at every search entry point (semantic, display, image, embedding,
\* lexical, agentic) a request with year 0 and the same request without year
\* get the same filtered games: what the filter returned for one of them is
\* what it returns for the other; the agentic request with year 0 runs the
\* search of the request without year and reports the same filters
YearLess(year) == IF year = 0 THEN None ELSE 0

C12_YearZeroIsNoFilter ==
    out.year \in {0, None} =>
      /\ (out.op \in SearchOps /\ out.found.raised = "none") =>
            out.games_data \in get_games_from_db(out.table, out.found.ids, out.score,
                                                 YearLess(out.year), out.scored_only,
                                                 out.db_ok)
      /\ out.op = "search_games_by_text" =>
            out.games_data \in search_games_by_text(out.table, out.matches, out.score,
                                                    YearLess(out.year), out.scored_only,
                                                    out.num_results, out.db_ok)
      /\ out.op = "agentic_rag_search" =>
            /\ out.filters = [score |-> out.score, year |-> None,
                              scored_only |-> out.scored_only]
            /\ agentic_search([score |-> out.score, year |-> out.year,
                               scored_only |-> out.scored_only])
               = agentic_search([score |-> out.score, year |-> YearLess(out.year),
                                 scored_only |-> out.scored_only])

\* a search with year 0 that returns the undated game and the dated one
C12_Witness ==
    /\ out.op = "semantic_search"
    /\ out.year = 0
    /\ Len(out.games) = 2
    /\ \E i \in 1..2 : out.games[i].release_date = None
    /\ \E i \in 1..2 : out.games[i].release_date = 2000

-----------------------------------------------------------------------------
\* C16: when the search of text_search_tool returns no game, the response is
\* the fixed no-matches message and the generator is not invoked
C16_EmptyIsFixedMessage ==
    (out.op = "agentic_rag_search" /\ out.games_info = <<>>) =>
        /\ out.response = NoMatchesText
        /\ out.outcome = "empty"
        /\ out.llm = NoLlm

\* no game was found although a generator is configured
C16_Witness ==
    /\ out.op = "agentic_rag_search"
    /\ out.games_info = <<>>
    /\ mm.llm # "none"
    /\ out.response = NoMatchesText

-----------------------------------------------------------------------------
\* C17: when no generator is configured, or the generator raises, the
\* response is the fallback template over the games text_search_tool was
\* given, each with its title and year, in their order
C17_FallbackWhenNoGenerator ==
    (/\ out.op = "agentic_rag_search"
     /\ out.games_info # <<>>
     /\ (mm.llm = "none" \/ out.llm.kind = "raises")) =>
        out.response = generate_fallback_response(out.games_info)

-----------------------------------------------------------------------------
\* C18: every response of text_search_tool is the generator's text (cleaned
\* or not), the fallback template or the no-matches message
C18_ThreeOutcomes ==
    out.op = "agentic_rag_search" =>
        \/ out.response = NoMatchesText
        \/ out.response = generate_fallback_response(out.games_info)
        \/ /\ out.llm.kind \in {"complete", "generated_text", "other"}
           /\ out.response \in {out.llm.text, clean_text(out.llm.text)}

-----------------------------------------------------------------------------
\* C19: the cleanup step runs on every generated text, whichever generator
\* wrote it, and on no fallback or no-matches text
C19_CleanupOnGeneratedOnly ==
    out.op = "agentic_rag_search" =>
        /\ out.outcome = "generated" =>
              (out.cleaned /\ out.response = clean_text(out.llm.text))
        /\ out.outcome \in {"fallback", "empty"} => ~out.cleaned

-----------------------------------------------------------------------------
\* C20: the games the response was built from are the games the payload
\* returns, in the same order; with the no-matches message the payload has
\* no games
C20_ResponseAboutReturnedGames ==
    out.op = "agentic_rag_search" =>
        /\ Len(out.games_info) = Len(out.games)
        /\ \A i \in 1..Len(out.games) : out.games_info[i].title = out.games[i].title
        /\ out.response = NoMatchesText => out.games = <<>>

-----------------------------------------------------------------------------
-----------------------------------------------------------------------------
\* C22: when the database fails during semantic_search, the payload has no
\* games and carries an error, which a search that matched nothing does not
C22_RepositoryFailureReported ==
    (/\ out.op = "semantic_search"
     /\ out.found.raised = "none"
     /\ ~out.db_ok) =>
        /\ out.games = <<>>
        /\ out.error # "none"

-----------------------------------------------------------------------------
\* C23: when encoding the query fails (the encoder is not loaded, or raises),
\* semantic_search and agentic_rag_search return no games and an error
EncodingFailed ==
    \/ ~mm.desc_encoder
    \/ out.op = "semantic_search" /\ out.found.raised = "EncoderError"
    \/ out.op = "agentic_rag_search" /\ ~out.encoded

C23_EncodingFailureReported ==
    (out.op \in {"semantic_search", "agentic_rag_search"} /\ EncodingFailed) =>
        /\ out.games = <<>>
        /\ out.error # "none"

-----------------------------------------------------------------------------
\* C24: a cover or screenshot collection that was not loaded disables the
\* image searches on it and nothing else: such a search returns no games and
\* raises nothing, load_models completes with every other component loaded,
\* and semantic_search answers as it does with the collections loaded
HasCollection(m, search_type) ==
    IF search_type = "covers" THEN m.covers_collection ELSE m.screenshots_collection

WithImageCollections(m) ==
    [m EXCEPT !.covers_collection = TRUE, !.screenshots_collection = TRUE]

C24_ImageCollectionsOptional ==
    /\ (/\ out.op \in ImageOps
        /\ out.search_type \in {"covers", "screenshots"}
        /\ ~HasCollection(mm, out.search_type)) =>
           /\ out.games = <<>>
           /\ out.error = "none"
           /\ out.caught = "RuntimeError"
    /\ mm.llm # "none" =>
           /\ mm.desc_encoder /\ mm.reranker /\ mm.reranker_tokenizer
           /\ mm.desc_collection /\ mm.critics_collection
    /\ out.op = "semantic_search" =>
           out = semantic_search(WithImageCollections(mm),
                     [num_results |-> out.num_results, score |-> out.score,
                      year |-> out.year, scored_only |-> out.scored_only],
                     [ids |-> out.ids, distances |-> out.distances,
                      encoded |-> out.found.raised # "EncoderError"],
                     out.table, out.db_ok, out.games_data, out.ce)

\* load_models completed without the image collections, and an image search
\* on the covers was asked for
C24_Witness ==
    /\ out.op = "search_by_image_embedding"
    /\ out.search_type = "covers"
    /\ ~mm.covers_collection
    /\ mm.llm # "none"
    /\ out.games = <<>>

-----------------------------------------------------------------------------
\* C25: a request whose generator has not answered when its timeout has
\* passed goes on to complete with the fallback template as response,
\* whichever generator is loaded
C25_TimeoutBecomesFallback ==
    (out.outcome = "waiting" /\ out.late)
        ~> (out.op = "agentic_rag_search" /\ out.outcome = "fallback")


\* C26: within one request the cross-encoder is invoked only with the
\* descriptions of the candidates that passed the filters, and the text
\* generator is invoked at most once per agentic request and only on the
\* assembled list of at most AgenticResults games
C26_StagesInOrder ==
    /\ (out.op \in TextOps /\ out.rr.called) =>
          /\ Len(out.rr.passages) = Len(out.games_data)
          /\ \A j \in 1..Len(out.games_data) :
                /\ out.rr.passages[j] = out.games_data[j].description
                /\ out.games_data[j].id \in Survivors
    /\ out.op = "agentic_rag_search" =>
          /\ out.llm_calls <= 1
          /\ out.llm_calls = 0 <=> out.llm = NoLlm
          /\ out.llm_calls > 0 =>
                /\ out.games_info # <<>>
                /\ Len(out.games_info) <= AgenticResults

\* the cross-encoder ran on two candidates that passed an active score filter
C26_Witness ==
    /\ out.op \in TextOps
    /\ out.rr.called
    /\ out.rr.raised = "none"
    /\ out.score # None
    /\ Cardinality(Survivors) = 2
    /\ Len(out.rr.passages) = 2

\* the parts of a list that differ from the part before them, in order
RECURSIVE DiffersFromPrevious(_)
DiffersFromPrevious(parts) ==
    IF Len(parts) <= 1 THEN parts
    ELSE LET front == DiffersFromPrevious(SubSeq(parts, 1, Len(parts) - 1))
         IN  IF parts[Len(parts)] = parts[Len(parts) - 1] THEN front
             ELSE Append(front, parts[Len(parts)])

\* C27: the cleanup pass splits the text on ". " and keeps, in order, exactly
\* the fragments that differ from the fragment before them: the output has no
\* two consecutive equal fragments, a fragment repeated further on is kept,
\* and the pass applied to its own output changes nothing
C27_CleanupCollapsesRepeats ==
    out.op = "clean_text" =>
        LET parts == split(out.answer)
            kept == split(out.response)
        IN  /\ kept = DiffersFromPrevious(parts)
            /\ \A k \in 1..(Len(kept) - 1) : kept[k] # kept[k + 1]
            /\ \A i \in 2..Len(parts) :
                  parts[i] # parts[i - 1] =>
                    Cardinality({k \in 1..Len(kept) : kept[k] = parts[i]})
                      >= Cardinality({j \in 1..i : parts[j] = parts[i]
                                                   /\ (j = 1 \/ parts[j - 1] # parts[j])})
            /\ clean_string(out.response) = out.response

\* "a. a. . a": the second "a" is dropped, the last one, after the empty
\* fragment, is kept
C27_Witness ==
    /\ out.op = "clean_text"
    /\ split(out.answer) = <<<<"a">>, <<"a">>, <<>>, <<"a">>>>
    /\ split(out.response) = <<<<"a">>, <<>>, <<"a">>>>

\* C28: after a successful reranking of two or more candidates the result
\* list is a permutation of the filtered games up to truncation: no game
\* appears twice, and when num_results does not truncate every filtered game
\* appears, also when two of them have the same description
C28_RerankedIsPermutation ==
    (Reranked /\ Len(out.games_data) >= 2) =>
        /\ \A i, j \in 1..Len(out.games) :
              i # j => out.games[i].id # out.games[j].id
        /\ Len(out.games_data) <= out.num_results =>
              \A j \in 1..Len(out.games_data) :
                \E k \in 1..Len(out.games) : out.games[k].id = out.games_data[j].id

\* C29: after reranking, the relevance_score of each returned game is the
\* fused score of that game's own retrieval similarity and the cross-encoder
\* score of its own description
C29_OwnFusedScore ==
    (Reranked /\ Len(out.games_data) >= 2) =>
        \A k \in 1..Len(out.games) :
            LET g == out.games[k]
            IN  g.relevance_score =
                  combined_score(out.found.scores[IndexOf(out.found.ids, g.id)],
                                 out.ce.score[g.description])

\* C30: every game a search operation returns has an id among the candidate
\* ids the index answered for the request and passes every active filter
C30_OnlyFilteredCandidates ==
    out.op \in SearchOps =>
        \A k \in 1..Len(out.games) :
            /\ \E i \in 1..Len(out.ids) : out.ids[i] = out.games[k].id
            /\ out.games[k].id \in Survivors

\* a search returned the one candidate of two that passes the active filters
C30_Witness ==
    /\ out.op \in SearchOps
    /\ out.score # None \/ out.year = 2000 \/ out.scored_only
    /\ Len(out.ids) = 2
    /\ Cardinality(Survivors) = 1
    /\ Len(out.games) = 1
=============================================================================
